---- MODULE Spec2Model ----
(***************************************************************************)
(* A model of the go-slack real-time client (Client in client.go, latest   *)
(* revision): the connection handle, the in-flight ping map, the listener  *)
(* registry, the active-channel list, and the goroutines Connect spawns    *)
(* (pingLoop, listenLoop, fetchActiveChannels, one task per dispatched     *)
(* listener).                                                              *)
(*                                                                         *)
(* Time is counted in seconds.  A socket is a positive integer, numbered   *)
(* in the order websocket.DefaultDialer.Dial created them.                 *)
(***************************************************************************)
EXTENDS Integers, Sequences, FiniteSets, Bags, TLC

VARIABLES
    rtm,          \* the Client struct: its mutable fields
    net,          \* the websocket layer: sockets dialed so far, those still open
    clock,        \* the wall clock: now (seconds) and unixNano (nanosecond reading)
    pingLoops,    \* bag of running pingLoop goroutines, each by the time its Sleep ends
    listenLoops,  \* bag of running listenLoop goroutines, each by its position
                  \* (the socket it reads, or Nil at the top of its loop) and
                  \* its local mt
    tasks,        \* bag of spawned goroutines that have not run yet
    lastOp,       \* the operation that completed last
    ret,          \* what it returned: "ok" (nil error) or "err"
    obs,          \* what it did and saw: the time, the frame read, the message
                  \* handled, whether the same operation ran just before,
                  \* frames written, reconnects and how each returned,
                  \* goroutines started, run and ended
    pre,          \* the Client struct as it was when the operation began
    seen,         \* the messages listenLoop dispatched last, oldest first
    locks         \* the two mutexes of the Client: the goroutine inside each

vars ==
    <<rtm, net, clock, pingLoops, listenLoops, tasks, lastOp, ret, obs, pre,
      seen, locks>>

---------------------------------------------------------------------------
(* Program constants *)

Nil == 0
DefaultPingInterval == 30
DefaultPingTimeout == 30
DefaultPingMaxFails == 5
DefaultPingMaxInFlight == 5
StatusOK == 200

EventPing == "ping"
EventPong == "pong"
EventMessage == "message"
EventMessageACK == "message_ack"
EventChannelJoined == "channel_joined"
EventChannelLeft == "channel_left"
EventChannelDeleted == "channel_deleted"
EventChannelUnArchive == "channel_unarchive"

(* Bounds of the model *)

MaxDials == 2       \* sockets websocket.Dial may create in one run
MaxLoops == 1       \* pingLoop (and listenLoop) goroutines alive at once
MaxLoopsConnect == 2  \* the same, with the consumer connecting at will
MaxNano == 2        \* ping ids issued in one run of Spec
MaxNanoTick == 6    \* ping ids issued in one run of SpecTick
MaxTime == 40       \* the clock stops here
ClockStep == 40     \* granularity of the clock, in seconds
MaxTasks == 1       \* goroutines spawned and not yet run
MaxActive == 1      \* length of ActiveChannels
MaxTasksListen == 2   \* goroutines spawned and not yet run, with the read loop at work
MaxActiveListen == 3  \* length of ActiveChannels, with channel events arriving
MaxSeen == 2          \* dispatched messages remembered in seen
MaxListeners == 1   \* listeners a consumer adds per event
MaxStringLen == 4   \* characters of a timestamp string
MaxCountMargin == 3 \* how far from -1, 1 and 1000 a requested count goes

Channels == {"C1"}

---------------------------------------------------------------------------
(* Values *)

\* A Message, with the fields the client reads.
Msg(type, channel, replyTo, id) ==
    [Type |-> type, Channel |-> channel, ReplyTo |-> replyTo, ID |-> id]

\* An inbound frame: whether it is JSON at all, its "type" ("" when it has
\* none), its "channel" (absent, a string, or a nested channel object), its
\* "reply_to" and whether it has an "ok" flag.
Frame(json, type, chanKind, chan, replyTo, hasOK) ==
    [json |-> json, type |-> type, chanKind |-> chanKind, chan |-> chan,
     reply_to |-> replyTo, hasOK |-> hasOK]

NoMsg == Msg("", "", 0, 0)

NoFrame == Frame(FALSE, "", "none", "", 0, FALSE)

\* The arguments of AddEventListener and RemoveEventListeners.
Registration(event, handler) == [event |-> event, handler |-> handler]

NoRegistration == Registration("", "")

\* A call of a function of the package that is no method of the running
\* connection: its name, its input and what it gave back.
Call(fn, in, out) == [fn |-> fn, in |-> in, out |-> out]

NoCall == Call("", <<>>, <<>>)

\* A goroutine inside a mutex: the listener and its message, or the
\* monitor's doPing; and nobody.
Holder(fn, m) == [fn |-> fn, m |-> m]

NoHolder == Holder("", NoMsg)

\* The mutexes, both free.
NoLocks == [l \in {"pingInFlightLock", "activeLock"} |-> NoHolder]

\* A listenLoop goroutine: where it is, and its variable mt.  It is at Nil
\* at the top of its loop, at a socket when blocked in ReadMessage on it, and
\* at Tested(s) between its test of the handle, which named s, and its call
\* of ReadMessage.
Loop(at, mt) == [at |-> at, mt |-> mt]

Tested(s) == Nil - s

\* A pingLoop goroutine is known by the time its Sleep ends, and is at
\* AtDoPing between its test of the handle and its call of doPing.
AtDoPing == Nil - 1

\* What rtm.start may answer: a transport error, or a status, an application
\* error string and a socket URL.
HandshakeResponses ==
    { [err |-> TRUE,  StatusCode |-> 0,   Error |-> "",             URL |-> ""],
      [err |-> FALSE, StatusCode |-> 500, Error |-> "",             URL |-> ""],
      [err |-> FALSE, StatusCode |-> 200, Error |-> "invalid_auth", URL |-> ""],
      [err |-> FALSE, StatusCode |-> 200, Error |-> "",             URL |-> "%zz"],
      [err |-> FALSE, StatusCode |-> 200, Error |-> "",             URL |-> "wss://rtm"] }

IsEmpty(s) == s = ""

\* url.Parse fails on a malformed escape.
urlParseOK(u) == u # "%zz"

\* The world an operation runs in and changes: the client, the websocket
\* layer, the clock, the goroutines it spawns, and the record of what it did.
World ==
    [rtm |-> rtm, net |-> net, unixNano |-> clock.unixNano, now |-> clock.now,
     tasks |-> tasks, pingLoops |-> pingLoops, listenLoops |-> listenLoops,
     out |-> <<>>, cycles |-> 0, cycleErrs |-> 0, cycleLog |-> {},
     f |-> NoFrame, seen |-> seen, held |-> {}, access |-> {},
     arg |-> NoRegistration, call |-> NoCall, nest |-> {}, locks |-> locks]

Result(w, e) == [w |-> w, err |-> e]

\* sync.Mutex: the goroutine at work takes lock l, and gives it back.
\* The locks it holds once it has l are noted.
Lock(w, l) ==
    [w EXCEPT !.held = @ \cup {l}, !.nest = @ \cup {w.held \cup {l}}]
Unlock(w, l) == [w EXCEPT !.held = @ \ {l}]

\* The goroutine at work reads or writes field of the Client: noted with
\* the locks it holds at that moment.
Touch(w, field) ==
    [w EXCEPT !.access = @ \cup {[field |-> field, held |-> w.held]}]

\* websocket.DefaultDialer.Dial: a new open socket, or nil and an error.
Dial(w, u, netOK) ==
    IF u = "wss://rtm" /\ netOK /\ w.net.dialed < MaxDials
    THEN [w |-> [w EXCEPT !.net = [dialed |-> @.dialed + 1,
                                   open |-> @.open \cup {@.dialed + 1}]],
          conn |-> w.net.dialed + 1, err |-> FALSE]
    ELSE [w |-> w, conn |-> Nil, err |-> TRUE]

\* conn.WriteJSON / conn.WriteMessage: one frame on the socket, or an error.
Write(w, frame, writeOK) ==
    IF writeOK /\ w.rtm.socketConnection \in w.net.open
    THEN Result([w EXCEPT !.out = Append(@, [sock |-> w.rtm.socketConnection,
                                             type |-> frame])], FALSE)
    ELSE Result(w, TRUE)

---------------------------------------------------------------------------
(* Go maps *)

EmptyMap == [k \in {} |-> 0]
Put(f, k, v) == [x \in DOMAIN f \cup {k} |-> IF x = k THEN v ELSE f[x]]
Delete(f, k) == [x \in DOMAIN f \ {k} |-> f[x]]
Lookup(f, k) == IF k \in DOMAIN f THEN f[k] ELSE <<>>

---------------------------------------------------------------------------
(* The client *)

\* NewClient: the fields as constructed, with the five built-in listeners.
NewClient ==
    [EventListeners |->
        (EventChannelJoined :> <<"handleChannelJoined">>) @@
        (EventChannelDeleted :> <<"handleChannelDeleted">>) @@
        (EventChannelUnArchive :> <<"handleChannelUnarchive">>) @@
        (EventChannelLeft :> <<"handleChannelLeft">>) @@
        (EventPong :> <<"handlePong">>),
     ActiveChannels |-> <<>>,
     socketConnection |-> Nil,
     pingTimeout |-> DefaultPingTimeout,
     pingMaxInFlight |-> DefaultPingMaxInFlight,
     pingMaxFails |-> DefaultPingMaxFails,
     pingFails |-> 0,
     pingInFlight |-> EmptyMap,
     pingInterval |-> DefaultPingInterval]

\* AddEventListener putting the handler in the place of the event's
\* listeners.
AddEventListenerReplace(c, event, handler) ==
    [c EXCEPT !.EventListeners = Put(@, event, <<handler>>)]

\* AddEventListener: append to the event's listeners.
AddEventListener(c, event, handler) ==
    [c EXCEPT !.EventListeners =
        Put(@, event, Append(Lookup(@, event), handler))]

\* RemoveEventListeners: delete the event's key.
RemoveEventListeners(c, event) ==
    [c EXCEPT !.EventListeners = Delete(@, event)]

\* The listeners dispatch would reach were they called one after another in
\* its own goroutine: those up to the first that panics.
ListenerTasksUntilPanic(ls, m) ==
    LET F[i \in 0..Len(ls)] ==
            IF i = 0 THEN EmptyBag
            ELSE IF \E j \in 1..(i - 1) : ls[j] = "panicListener"
                 THEN F[i - 1]
                 ELSE F[i - 1] (+) SetToBag({[fn |-> ls[i], m |-> m]})
    IN  F[Len(ls)]

\* The goroutines dispatch starts for message m: one per listener.
ListenerTasks(ls, m) ==
    LET F[i \in 0..Len(ls)] ==
            IF i = 0 THEN EmptyBag
            ELSE F[i - 1] (+) SetToBag({[fn |-> ls[i], m |-> m]})
    IN  F[Len(ls)]

\* dispatch: one goroutine per listener registered under m.Type.
dispatch(w, m) ==
    IF m.Type \in DOMAIN w.rtm.EventListeners
    THEN [w EXCEPT !.tasks = @ (+) ListenerTasks(w.rtm.EventListeners[m.Type], m)]
    ELSE w

\* SendMessage: an error when the handle is nil, else one JSON frame.
SendMessage(w, writeOK) ==
    IF w.rtm.socketConnection = Nil
    THEN Result(w, TRUE)
    ELSE Write(w, EventMessage, writeOK)

\* Say: the same check, then SendMessage.
Say(w, writeOK) ==
    IF w.rtm.socketConnection = Nil
    THEN Result(w, TRUE)
    ELSE SendMessage(w, writeOK)

\* Sayf: the same check, then SendMessage.
Sayf(w, writeOK) ==
    IF w.rtm.socketConnection = Nil
    THEN Result(w, TRUE)
    ELSE SendMessage(w, writeOK)

\* Ping without the check of the handle.
PingUnchecked(w, writeOK) ==
    LET id == w.unixNano
        w1 == dispatch([w EXCEPT !.unixNano = @ + 1], Msg(EventPing, "", 0, id))
        w2 == Touch([w1 EXCEPT !.rtm.pingInFlight = Put(@, id, w.now)],
                    "pingInFlight")
    IN  Write(w2, EventPing, writeOK)

\* Ping: an error when the handle is nil; else a ping whose id is the
\* nanosecond clock, dispatched to the ping listeners, recorded in
\* pingInFlight with the time, then written.
Ping(w, writeOK) ==
    IF w.rtm.socketConnection = Nil
    THEN Result(w, TRUE)
    ELSE LET id == w.unixNano
             w1 == dispatch([w EXCEPT !.unixNano = @ + 1],
                            Msg(EventPing, "", 0, id))
             w2 == Touch([w1 EXCEPT !.rtm.pingInFlight = Put(@, id, w.now)],
                         "pingInFlight")
         IN  Write(w2, EventPing, writeOK)

\* cycleConnection building the client anew: the channels are forgotten.
cycleConnectionFresh(w, res, netOK) ==
    IF res.err THEN Result(w, TRUE)
    ELSE IF res.StatusCode > StatusOK THEN Result(w, TRUE)
    ELSE LET w1 == Touch([w EXCEPT !.rtm.pingInFlight = EmptyMap,
                                   !.rtm.pingFails = 0,
                                   !.rtm.ActiveChannels = <<>>],
                         "pingInFlight")
         IN  IF ~urlParseOK(res.URL) THEN Result(w1, TRUE)
             ELSE LET d == Dial(w1, res.URL, netOK)
                  IN  Result([d.w EXCEPT !.rtm.socketConnection = d.conn],
                             d.err)

\* cycleConnection as it was before pingInFlight was reset in it.
cycleConnectionNoReset(w, res, netOK) ==
    IF res.err THEN Result(w, TRUE)
    ELSE IF res.StatusCode > StatusOK THEN Result(w, TRUE)
    ELSE IF ~urlParseOK(res.URL) THEN Result(w, TRUE)
    ELSE LET d == Dial(w, res.URL, netOK)
         IN  Result([d.w EXCEPT !.rtm.socketConnection = d.conn], d.err)

\* cycleConnection: the handshake again; on a transport error or a status
\* above 200 nothing changes.  Otherwise pingInFlight and pingFails are
\* reset, the URL is parsed, and the handle is assigned what Dial returns
\* (nil when Dial fails).  res.Error is not looked at.
cycleConnection(w, res, netOK) ==
    IF res.err THEN Result(w, TRUE)
    ELSE IF res.StatusCode > StatusOK THEN Result(w, TRUE)
    ELSE LET w1 == Touch([w EXCEPT !.rtm.pingInFlight = EmptyMap,
                                   !.rtm.pingFails = 0],
                         "pingInFlight")
         IN  IF ~urlParseOK(res.URL) THEN Result(w1, TRUE)
             ELSE LET d == Dial(w1, res.URL, netOK)
                  IN  Result([d.w EXCEPT !.rtm.socketConnection = d.conn],
                             d.err)

\* A cycleConnection call, noted in the record of the operation: whether
\* the handshake passed, whether the call returned an error, and how many
\* pings it left in flight.
Cycled(w, res, netOK) ==
    LET r == cycleConnection(w, res, netOK)
    IN  [r.w EXCEPT
           !.cycles = @ + 1,
           !.cycleErrs = IF r.err THEN @ + 1 ELSE @,
           !.cycleLog = @ \cup
              {[handshake |-> ~res.err /\ res.StatusCode <= StatusOK,
                err |-> r.err,
                left |-> Cardinality(DOMAIN r.w.rtm.pingInFlight)]}]

\* Every world one cycleConnection call can leave.
cycleConnectionAny(w) ==
    { Cycled(w, res, netOK) : res \in HandshakeResponses, netOK \in BOOLEAN }

\* n cycleConnection calls in a row, from any of the worlds ws.
RECURSIVE CycleEach(_, _)
CycleEach(ws, n) ==
    IF n = 0 THEN ws
    ELSE CycleEach(UNION { cycleConnectionAny(x) : x \in ws }, n - 1)

\* The entries of map f that have timed out at time t.
Stale(f, t, timeout) == { k \in DOMAIN f : t - f[k] >= timeout }

\* doPing sending while pingMaxInFlight or fewer are outstanding.
doPingOffByOne(w, writeOK) ==
    LET w0 == Touch(Lock(w, "pingInFlightLock"), "pingInFlight")
        afterPing ==
            IF Cardinality(DOMAIN w.rtm.pingInFlight) <= w.rtm.pingMaxInFlight
            THEN LET p == Ping(w0, writeOK)
                 IN  IF p.err THEN cycleConnectionAny(p.w) ELSE {p.w}
            ELSE {w0}
        afterCycle ==
            UNION { CycleEach({w1},
                        Cardinality(Stale(w1.rtm.pingInFlight, w1.now,
                                          w1.rtm.pingTimeout)))
                    : w1 \in afterPing }
        prune(w2) ==
            Unlock([w2 EXCEPT !.rtm.pingInFlight =
                      [k \in DOMAIN @ \ Stale(@, w2.now, w2.rtm.pingTimeout)
                          |-> @[k]]],
                   "pingInFlightLock")
    IN  { prune(w2) : w2 \in afterCycle }

\* doPing that only prunes the timed-out pings, cycling for none of them.
doPingNoCycle(w, writeOK) ==
    LET w0 == Touch(Lock(w, "pingInFlightLock"), "pingInFlight")
        afterPing ==
            IF Cardinality(DOMAIN w.rtm.pingInFlight) < w.rtm.pingMaxInFlight
            THEN LET p == Ping(w0, writeOK)
                 IN  IF p.err THEN cycleConnectionAny(p.w) ELSE {p.w}
            ELSE {w0}
        prune(w2) ==
            Unlock([w2 EXCEPT !.rtm.pingInFlight =
                      [k \in DOMAIN @ \ Stale(@, w2.now, w2.rtm.pingTimeout)
                          |-> @[k]]],
                   "pingInFlightLock")
    IN  { prune(w2) : w2 \in afterPing }

\* doPing without its last loop: the timed-out entries stay in the map.
doPingNoPrune(w, writeOK) ==
    LET w0 == Touch(Lock(w, "pingInFlightLock"), "pingInFlight")
        afterPing ==
            IF Cardinality(DOMAIN w.rtm.pingInFlight) < w.rtm.pingMaxInFlight
            THEN LET p == Ping(w0, writeOK)
                 IN  IF p.err THEN cycleConnectionAny(p.w) ELSE {p.w}
            ELSE {w0}
        afterCycle ==
            UNION { CycleEach({w1},
                        Cardinality(Stale(w1.rtm.pingInFlight, w1.now,
                                          w1.rtm.pingTimeout)))
                    : w1 \in afterPing }
    IN  { Unlock(w2, "pingInFlightLock") : w2 \in afterCycle }

\* doPing, one tick of the monitor: a ping when fewer than pingMaxInFlight
\* are outstanding, cycling the connection when it fails; then one
\* cycleConnection per timed-out entry of the map the range statement was
\* given; then the timed-out entries of the current map are deleted.
doPing(w, writeOK) ==
    LET w0 == Touch(Lock(w, "pingInFlightLock"), "pingInFlight")
        afterPing ==
            IF Cardinality(DOMAIN w.rtm.pingInFlight) < w.rtm.pingMaxInFlight
            THEN LET p == Ping(w0, writeOK)
                 IN  IF p.err THEN cycleConnectionAny(p.w) ELSE {p.w}
            ELSE {w0}
        afterCycle ==
            UNION { CycleEach({w1},
                        Cardinality(Stale(w1.rtm.pingInFlight, w1.now,
                                          w1.rtm.pingTimeout)))
                    : w1 \in afterPing }
        prune(w2) ==
            Unlock([w2 EXCEPT !.rtm.pingInFlight =
                      [k \in DOMAIN @ \ Stale(@, w2.now, w2.rtm.pingTimeout)
                          |-> @[k]]],
                   "pingInFlightLock")
    IN  { prune(w2) : w2 \in afterCycle }

\* handlePong forgetting every outstanding ping.
handlePongClear(w, m) ==
    Unlock(Touch([Lock(w, "pingInFlightLock") EXCEPT
                     !.rtm.pingInFlight = EmptyMap],
                 "pingInFlight"),
           "pingInFlightLock")

\* handlePong taking activeLock too, inside pingInFlightLock.
handlePongNested(w, m) ==
    Unlock(Unlock(Touch([Lock(Lock(w, "pingInFlightLock"), "activeLock")
                            EXCEPT !.rtm.pingInFlight = Delete(@, m.ReplyTo)],
                        "pingInFlight"),
                  "activeLock"),
           "pingInFlightLock")

\* handlePong: with pingInFlightLock held, delete the entry of
\* message.ReplyTo.
handlePong(w, m) ==
    Unlock(Touch([Lock(w, "pingInFlightLock") EXCEPT
                     !.rtm.pingInFlight = Delete(@, m.ReplyTo)],
                 "pingInFlight"),
           "pingInFlightLock")

\* Connect starting its goroutines before the socket is dialed.
ConnectSpawnFirst(w, res, netOK) ==
    IF res.err THEN Result(w, TRUE)
    ELSE IF ~IsEmpty(res.Error) THEN Result(w, TRUE)
    ELSE IF res.StatusCode > StatusOK THEN Result(w, TRUE)
    ELSE IF ~urlParseOK(res.URL) THEN Result(w, TRUE)
    ELSE LET w0 == [w EXCEPT
                       !.tasks = @ (+) SetToBag({[fn |-> "fetchActiveChannels",
                                                  m |-> Msg("", "", 0, 0)]}),
                       !.pingLoops = @ (+) SetToBag({w.now}),
                       !.listenLoops = @ (+) SetToBag({Loop(Nil, "")})]
             d == Dial(w0, res.URL, netOK)
         IN  Result([d.w EXCEPT !.rtm.socketConnection = d.conn], d.err)

\* Connect: the handshake; an error when the call fails, when the answer
\* carries an error string, or when the status is above 200.  Then the URL
\* is parsed and the handle is assigned what Dial returns.  Only when Dial
\* succeeded are fetchActiveChannels, pingLoop and listenLoop started.
Connect(w, res, netOK) ==
    IF res.err THEN Result(w, TRUE)
    ELSE IF ~IsEmpty(res.Error) THEN Result(w, TRUE)
    ELSE IF res.StatusCode > StatusOK THEN Result(w, TRUE)
    ELSE IF ~urlParseOK(res.URL) THEN Result(w, TRUE)
    ELSE LET d == Dial(w, res.URL, netOK)
             w1 == [d.w EXCEPT !.rtm.socketConnection = d.conn]
         IN  IF d.err THEN Result(w1, TRUE)
             ELSE Result(
                    [w1 EXCEPT
                       !.tasks = @ (+) SetToBag({[fn |-> "fetchActiveChannels",
                                                  m |-> Msg("", "", 0, 0)]}),
                       !.pingLoops = @ (+) SetToBag({w1.now}),
                       !.listenLoops = @ (+) SetToBag({Loop(Nil, "")})],
                    FALSE)

\* Stop: nothing when the handle is nil.  Else the close frame is written;
\* when that write fails its error is returned at once.  Otherwise the
\* socket is closed and the handle set to nil.
Stop(w, writeOK) ==
    IF w.rtm.socketConnection = Nil
    THEN Result(w, FALSE)
    ELSE LET c == Write(w, "close", writeOK)
         IN  IF c.err THEN Result(c.w, TRUE)
             ELSE Result([c.w EXCEPT
                            !.net.open = @ \ {w.rtm.socketConnection},
                            !.rtm.socketConnection = Nil],
                         FALSE)

\* handleChannelJoined appending with no lock taken.
handleChannelJoinedNoLock(w, m) ==
    Touch([w EXCEPT !.rtm.ActiveChannels = Append(@, m.Channel)],
          "ActiveChannels")

\* handleChannelJoined: with activeLock held, append the channel.
handleChannelJoined(w, m) ==
    Unlock(Touch([Lock(w, "activeLock") EXCEPT
                     !.rtm.ActiveChannels = Append(@, m.Channel)],
                 "ActiveChannels"),
           "activeLock")

\* handleChannelUnarchive appending whenever ChannelsInfo answered, member
\* or not.
handleChannelUnarchiveAlways(w, m, info) ==
    LET w0 == Lock(w, "activeLock")
    IN  IF info = "err" THEN Unlock(w0, "activeLock")
        ELSE Unlock(Touch([w0 EXCEPT
                              !.rtm.ActiveChannels = Append(@, m.Channel)],
                          "ActiveChannels"),
                    "activeLock")

\* handleChannelUnarchive: with activeLock held, ChannelsInfo, then append
\* when a member.  info is "err", "member" or "notMember".
handleChannelUnarchive(w, m, info) ==
    LET w0 == Lock(w, "activeLock")
    IN  IF info = "err" THEN Unlock(w0, "activeLock")
        ELSE IF info = "member"
             THEN Unlock(Touch([w0 EXCEPT
                                  !.rtm.ActiveChannels = Append(@, m.Channel)],
                               "ActiveChannels"),
                         "activeLock")
             ELSE Unlock(w0, "activeLock")

\* removeActiveChannel dropping the first occurrence only.
removeActiveChannelFirst(w, channelID) ==
    LET a == w.rtm.ActiveChannels
        hits == {i \in DOMAIN a : a[i] = channelID}
        first == CHOOSE i \in hits : \A j \in hits : i <= j
    IN  IF hits = {} THEN w
        ELSE Unlock(Touch([Lock(w, "activeLock") EXCEPT
                             !.rtm.ActiveChannels =
                                SubSeq(a, 1, first - 1)
                                    \o SubSeq(a, first + 1, Len(a))],
                          "ActiveChannels"),
                    "activeLock")

\* removeActiveChannel: with activeLock held, the list rebuilt without
\* channelID.
removeActiveChannel(w, channelID) ==
    Unlock(Touch([Lock(w, "activeLock") EXCEPT
                     !.rtm.ActiveChannels =
                        SelectSeq(@, LAMBDA c : c # channelID)],
                 "ActiveChannels"),
           "activeLock")

handleChannelLeft(w, m) == removeActiveChannel(w, m.Channel)

handleChannelDeleted(w, m) == removeActiveChannel(w, m.Channel)

\* fetchActiveChannels: with activeLock held, ChannelsList, then every
\* channel the client is a member of and that is not archived is appended.
\* list is the answer of ChannelsList: an error, or the channels.
fetchActiveChannels(w, list) ==
    IF list.err THEN Unlock(Lock(w, "activeLock"), "activeLock")
    ELSE LET keep == SelectSeq(list.channels,
                               LAMBDA c : c.IsMember /\ ~c.IsArchived)
         IN  Unlock(Touch([Lock(w, "activeLock") EXCEPT
                             !.rtm.ActiveChannels =
                                @ \o [i \in 1..Len(keep) |-> keep[i].ID]],
                          "ActiveChannels"),
                    "activeLock")

---------------------------------------------------------------------------
(* The read loop *)

PongFrame(r) == Frame(TRUE, EventPong, "none", "", r, FALSE)

\* Frames the service sends: a pong for any ping id issued so far (or for
\* none, reply_to 0) ...
PongFrames == { PongFrame(r) : r \in 0..(clock.unixNano - 1) }

\* ... and channel events, with the channel as a string.
ChannelFrames ==
    { Frame(TRUE, e, "string", c, 0, FALSE) :
        e \in {EventChannelJoined, EventChannelLeft}, c \in Channels }

\* Frames of the read loop at work: a message, the acknowledgement of a
\* sent message (no type, an ok flag, a reply_to), bytes that are not JSON,
\* and channel_joined as the service sends it, the channel a nested object.
ListenFrames ==
    { Frame(TRUE, EventMessage, "string", "C1", 0, FALSE),
      Frame(TRUE, "", "none", "", 1, TRUE),
      Frame(FALSE, "", "none", "", 0, FALSE),
      Frame(TRUE, EventChannelJoined, "object", "C1", 0, FALSE) }

\* Channel events of two channels, the channel a string.
ChannelEventFrames ==
    { Frame(TRUE, e, "string", c, 0, FALSE) :
        e \in {EventChannelJoined, EventChannelLeft}, c \in {"C1", "C2"} }
    \cup { Frame(TRUE, EventChannelDeleted, "string", "C1", 0, FALSE) }

\* The four channel events the built-in listeners take, for one channel.
TrackerFrames ==
    { Frame(TRUE, e, "string", "C1", 0, FALSE) :
        e \in {EventChannelJoined, EventChannelUnArchive,
               EventChannelLeft, EventChannelDeleted} }

\* json.Unmarshal into mt, the MessageType listenLoop declares once, before
\* its loop: the type alone.  A field the frame does not have is left as it
\* was, and a frame that is not JSON changes nothing.
UnmarshalMessageType(f, mt) ==
    [err |-> ~f.json,
     Type |-> IF f.json /\ f.type # "" THEN f.type ELSE mt]

\* json.Unmarshal into Message: Channel is a string field, so a nested
\* channel object is a type error.
UnmarshalMessage(f) ==
    [err |-> ~f.json \/ f.chanKind = "object",
     m |-> Msg(f.type, IF f.chanKind = "string" THEN f.chan ELSE "", f.reply_to, 0),
     OK |-> f.hasOK]

\* What one frame did: the world, mt, and the message dispatched if any.
Framed(w, mt, sent, m) == [w |-> w, mt |-> mt, sent |-> sent, m |-> m]

\* listenLoop dispatching whatever the decodes left in m, failed or not.
listenLoopFrameNoCheck(w, f, mt) ==
    LET t == UnmarshalMessageType(f, mt)
        um == UnmarshalMessage(f)
    IN  Framed(dispatch(w, um.m), t.Type, TRUE, um.m)

\* One frame through listenLoop, whose mt holds type mt: both decodes must
\* succeed; then, when mt.Type is empty and the frame has an ok flag, a
\* message_ack is dispatched, and otherwise the decoded message.
listenLoopFrame(w, f, mt) ==
    LET t == UnmarshalMessageType(f, mt)
        um == UnmarshalMessage(f)
        ack == Msg(EventMessageACK, "", um.m.ReplyTo, 0)
    IN  IF t.err THEN Framed(w, mt, FALSE, NoMsg)
        ELSE IF um.err THEN Framed(w, t.Type, FALSE, NoMsg)
        ELSE IF Len(t.Type) = 0 /\ um.OK
             THEN Framed(dispatch(w, ack), t.Type, TRUE, ack)
             ELSE Framed(dispatch(w, um.m), t.Type, TRUE, um.m)

---------------------------------------------------------------------------
(* Timestamp.  A string is a sequence of characters. *)

Digits == <<"0", "1", "2", "3", "4", "5", "6", "7", "8", "9">>

IsDigit(c) == \E d \in DOMAIN Digits : Digits[d] = c

DigitValue(c) == (CHOOSE d \in DOMAIN Digits : Digits[d] = c) - 1

\* strconv.ParseInt(s, 10, 64): an optional sign, then one digit or more.
\* (Strings of the model are too short to leave the int64 range.)
ParseInt(s) ==
    LET signed == Len(s) > 0 /\ s[1] \in {"+", "-"}
        body == IF signed THEN SubSeq(s, 2, Len(s)) ELSE s
        V[i \in 0..Len(body)] ==
            IF i = 0 THEN 0 ELSE 10 * V[i - 1] + DigitValue(body[i])
    IN  IF body = <<>> \/ \E i \in DOMAIN body : ~IsDigit(body[i])
        THEN [err |-> TRUE, value |-> 0]
        ELSE [err |-> FALSE,
              value |-> IF signed /\ s[1] = "-" THEN 0 - V[Len(body)]
                                                ELSE V[Len(body)]]

\* fmt.Sprintf("%d", n).
RECURSIVE FormatNat(_)
FormatNat(n) ==
    IF n < 10 THEN <<Digits[n + 1]>>
    ELSE FormatNat(n \div 10) \o <<Digits[(n % 10) + 1]>>

FormatInt(n) == IF n < 0 THEN <<"-">> \o FormatNat(0 - n) ELSE FormatNat(n)

\* strings.Replace(s, `"`, ``, -1).
RemoveQuotes(s) == SelectSeq(s, LAMBDA c : c # "\"")

\* strings.Contains(s, c).
Contains(s, c) == \E i \in DOMAIN s : s[i] = c

\* strings.Split(s, sep).
RECURSIVE Split(_, _)
Split(s, sep) ==
    IF ~Contains(s, sep) THEN <<s>>
    ELSE LET i == CHOOSE k \in DOMAIN s :
                      s[k] = sep /\ \A j \in 1..(k - 1) : s[j] # sep
         IN  <<SubSeq(s, 1, i - 1)>> \o Split(SubSeq(s, i + 1, Len(s)), sep)

\* time.Unix(sec, 0), and the zero time.Time of a fresh Timestamp.
TimeUnix(sec) == [zero |-> FALSE, sec |-> sec]

ZeroTime == [zero |-> TRUE, sec |-> 0]

\* fmt.Sprintf("%d", t.Unix()); the zero time is second -62135596800.
UnixString(t) ==
    IF t.zero
    THEN <<"-", "6", "2", "1", "3", "5", "5", "9", "6", "8", "0", "0">>
    ELSE FormatInt(t.sec)

\* &Timestamp{}.
NewTimestamp == [time |-> ZeroTime, uuid |-> <<>>]

\* Timestamp.String printing the uuid as a number.
TimestampStringNumeric(t) ==
    IF Len(t.uuid) # 0
    THEN UnixString(t.time) \o <<".">> \o FormatInt(ParseInt(t.uuid).value)
    ELSE UnixString(t.time)

\* Timestamp.String: the seconds, then a dot and the uuid when there is one.
TimestampString(t) ==
    IF Len(t.uuid) # 0
    THEN UnixString(t.time) \o <<".">> \o t.uuid
    ELSE UnixString(t.time)

\* Timestamp.UnmarshalJSON: the quotes are removed; with a dot in it the
\* string is split at the dots, and when the first part is an integer it
\* is the time and the second part the uuid; a string that is an integer
\* as a whole is the time.  No error is returned.
TimestampUnmarshalJSON(t, data) ==
    LET strValue == RemoveQuotes(data)
        components == Split(strValue, ".")
        t1 == IF Contains(strValue, ".") /\ ~ParseInt(components[1]).err
              THEN [time |-> TimeUnix(ParseInt(components[1]).value),
                    uuid |-> components[2]]
              ELSE t
    IN  IF ~ParseInt(strValue).err
        THEN [t1 EXCEPT !.time = TimeUnix(ParseInt(strValue).value)]
        ELSE t1

---------------------------------------------------------------------------
(* The remote calls of api.go *)

\* What req.JSON(&res) leaves the caller with: a transport error, or the
\* response's ok flag and error string.
ApiResponses ==
    { [err |-> TRUE,  Error |-> "",                  OK |-> FALSE],
      [err |-> FALSE, Error |-> "",                  OK |-> TRUE],
      [err |-> FALSE, Error |-> "channel_not_found", OK |-> FALSE],
      [err |-> FALSE, Error |-> "",                  OK |-> FALSE],
      [err |-> FALSE, Error |-> "warning",           OK |-> TRUE] }

ErrTransport == "transport error"
ErrNotOK == "slack response ok is false."
ErrUsage == "fileId or fileCommentID or (channelID and ts) must be not be nil."

\* What a call gave its caller: whether the request was sent, the form
\* fields it carried, whether a result came back, and the error (the empty
\* string for nil).
Outcome(called, post, result, err) ==
    [err |-> err, called |-> called, post |-> post, result |-> result]

\* The tail of the calls that test the error string only: the transport
\* error, else the response's error string, else the result.
ReturnUnlessError(post, res) ==
    IF res.err THEN Outcome(TRUE, post, FALSE, ErrTransport)
    ELSE IF ~IsEmpty(res.Error) THEN Outcome(TRUE, post, FALSE, res.Error)
    ELSE Outcome(TRUE, post, TRUE, "")

\* The tail of the calls that test the ok flag too.
ReturnIfOK(post, res) ==
    IF res.err THEN Outcome(TRUE, post, FALSE, ErrTransport)
    ELSE IF ~IsEmpty(res.Error) THEN Outcome(TRUE, post, FALSE, res.Error)
    ELSE IF ~res.OK THEN Outcome(TRUE, post, FALSE, ErrNotOK)
    ELSE Outcome(TRUE, post, TRUE, "")

\* The form of a call, as far as the model goes: the token.  (The channel,
\* user, text and timestamp fields a call adds are left out.)
AuthTest(res) == ReturnIfOK([token |-> "t"], res)

ChannelsInfo(res) == ReturnIfOK([token |-> "t"], res)

ChannelsList(res) == ReturnIfOK([token |-> "t"], res)

ChannelsMark(res) == ReturnIfOK([token |-> "t"], res)

ChannelsSetPurpose(res) == ReturnIfOK([token |-> "t"], res)

ChannelsSetTopic(res) == ReturnIfOK([token |-> "t"], res)

ChatDelete(res) == ReturnIfOK([token |-> "t"], res)

ChatPostMessage(res) == ReturnIfOK([token |-> "t"], res)

ChatUpdate(res) == ReturnIfOK([token |-> "t"], res)

EmojiList(res) == ReturnIfOK([token |-> "t"], res)

\* UsersList, UsersInfo and InviteUser do not look at the ok flag.
UsersList(res) == ReturnUnlessError([token |-> "t"], res)

UsersInfo(res) == ReturnUnlessError([token |-> "t"], res)

InviteUser(res) == ReturnUnlessError([token |-> "t"], res)

\* The operations that take nothing the model varies but the response.
PlainOps ==
    {"AuthTest", "ChannelsInfo", "ChannelsList", "ChannelsMark",
     "ChannelsSetPurpose", "ChannelsSetTopic", "ChatDelete", "ChatPostMessage",
     "ChatUpdate", "EmojiList", "UsersList", "UsersInfo", "InviteUser"}

PlainCall(fn, res) ==
    CASE fn = "AuthTest" -> AuthTest(res)
      [] fn = "ChannelsInfo" -> ChannelsInfo(res)
      [] fn = "ChannelsList" -> ChannelsList(res)
      [] fn = "ChannelsMark" -> ChannelsMark(res)
      [] fn = "ChannelsSetPurpose" -> ChannelsSetPurpose(res)
      [] fn = "ChannelsSetTopic" -> ChannelsSetTopic(res)
      [] fn = "ChatDelete" -> ChatDelete(res)
      [] fn = "ChatPostMessage" -> ChatPostMessage(res)
      [] fn = "ChatUpdate" -> ChatUpdate(res)
      [] fn = "EmojiList" -> EmojiList(res)
      [] fn = "UsersList" -> UsersList(res)
      [] fn = "UsersInfo" -> UsersInfo(res)
      [] fn = "InviteUser" -> InviteUser(res)

\* The target of a reaction: which of the four pointers are not nil.
Target(fileID, fileCommentID, channelID, ts) ==
    [channelID |-> channelID, fileID |-> fileID,
     fileCommentID |-> fileCommentID, ts |-> ts]

Targets ==
    { Target(a, b, c, d) : a \in BOOLEAN, b \in BOOLEAN, c \in BOOLEAN,
                           d \in BOOLEAN }

\* The reaction calls sending the request whatever the target.
TargetFieldsLax(t) ==
    IF t.fileID THEN [post |-> [file |-> "f"], usage |-> FALSE]
    ELSE IF t.fileCommentID THEN [post |-> [file_comment |-> "fc"], usage |-> FALSE]
    ELSE IF t.channelID /\ t.ts
         THEN [post |-> [channel |-> "c", timestamp |-> "ts"], usage |-> FALSE]
         ELSE [post |-> <<>>, usage |-> FALSE]

\* The if-chain of the three reaction calls: the file, else the file
\* comment, else the channel with the timestamp, else a usage error.
TargetFields(t) ==
    IF t.fileID THEN [post |-> [file |-> "f"], usage |-> FALSE]
    ELSE IF t.fileCommentID THEN [post |-> [file_comment |-> "fc"], usage |-> FALSE]
    ELSE IF t.channelID /\ t.ts
         THEN [post |-> [channel |-> "c", timestamp |-> "ts"], usage |-> FALSE]
         ELSE [post |-> <<>>, usage |-> TRUE]

ReactionsAdd(t, res) ==
    LET f == TargetFields(t)
    IN  IF f.usage THEN Outcome(FALSE, <<>>, FALSE, ErrUsage)
        ELSE ReturnIfOK([token |-> "t"] @@ f.post, res)

ReactionsGet(t, res) ==
    LET f == TargetFields(t)
    IN  IF f.usage THEN Outcome(FALSE, <<>>, FALSE, ErrUsage)
        ELSE ReturnIfOK([token |-> "t"] @@ f.post, res)

ReactionsRemove(t, res) ==
    LET f == TargetFields(t)
    IN  IF f.usage THEN Outcome(FALSE, <<>>, FALSE, ErrUsage)
        ELSE ReturnIfOK([token |-> "t"] @@ f.post, res)

ReactionOps == {"ReactionsAdd", "ReactionsGet", "ReactionsRemove"}

ReactionCall(fn, t, res) ==
    CASE fn = "ReactionsAdd" -> ReactionsAdd(t, res)
      [] fn = "ReactionsGet" -> ReactionsGet(t, res)
      [] fn = "ReactionsRemove" -> ReactionsRemove(t, res)

\* The character with code point r, as far as reading a number goes: a
\* digit, a sign, or some other character.
CharOf(r) ==
    IF r \in 48..57 THEN Digits[r - 47]
    ELSE IF r = 43 THEN "+"
    ELSE IF r = 45 THEN "-"
    ELSE "?"

\* string(n) of an int n: the string of the one character with code point n.
StringOfInt(n) == <<CharOf(n)>>

\* The count ChannelsHistory goes on with.
ClampCount(count) ==
    IF count = -1 THEN 1000
    ELSE IF count < 1 THEN 1
    ELSE IF count > 1000 THEN 1000
    ELSE count

\* ChannelsHistory: the count is clamped and posted as string(count).
ChannelsHistory(count, unreads, res) ==
    ReturnIfOK([token |-> "t",
                count |-> StringOfInt(ClampCount(count)),
                unreads |-> IF unreads THEN "1" ELSE "0"], res)

---------------------------------------------------------------------------
(* Actions *)

Positive(n) == IF n > 0 THEN n ELSE 0

\* The last n elements of sequence s.
LastN(s, n) == IF Len(s) <= n THEN s ELSE SubSeq(s, Len(s) - n + 1, Len(s))

\* The process runs until a goroutine panics with nothing to recover it.
Running == lastOp # "panic"

\* The operation op, given message m, ends in world w, having returned
\* error e.
CommitMsg(w, op, e, m) ==
    /\ Running
    /\ BagCardinality(w.tasks) <= MaxTasksListen
    /\ BagCardinality(w.pingLoops) <= MaxLoopsConnect
    /\ BagCardinality(w.listenLoops) <= MaxLoopsConnect
    /\ Len(w.rtm.ActiveChannels) <= MaxActiveListen
    /\ rtm' = w.rtm
    /\ net' = w.net
    /\ clock' = [now |-> w.now, unixNano |-> w.unixNano]
    /\ tasks' = w.tasks
    /\ pingLoops' = w.pingLoops
    /\ listenLoops' = w.listenLoops
    /\ lastOp' = op
    /\ ret' = IF e THEN "err" ELSE "ok"
    /\ obs' = [now |-> clock.now, f |-> w.f, m |-> m, again |-> (lastOp = op),
               out |-> w.out, cycles |-> w.cycles, cycleErrs |-> w.cycleErrs,
               cycleLog |-> w.cycleLog, access |-> w.access, arg |-> w.arg,
               call |-> w.call, nest |-> w.nest,
               pingLoop |-> Positive(BagCardinality(w.pingLoops)
                                     - BagCardinality(pingLoops)),
               listenLoop |-> Positive(BagCardinality(w.listenLoops)
                                       - BagCardinality(listenLoops)),
               exited |-> Positive(BagCardinality(listenLoops)
                                   - BagCardinality(w.listenLoops)),
               spawned |-> w.tasks (-) tasks,
               ran |-> tasks (-) w.tasks]
    /\ pre' = rtm
    /\ seen' = w.seen
    /\ locks' = w.locks

Commit(w, op, e) == CommitMsg(w, op, e, NoMsg)

DoConnect ==
    \E res \in HandshakeResponses, netOK \in BOOLEAN :
        \E r \in {Connect(World, res, netOK)} : Commit(r.w, "Connect", r.err)

DoStop ==
    \E writeOK \in BOOLEAN :
        \E r \in {Stop(World, writeOK)} : Commit(r.w, "Stop", r.err)

DoSendMessage ==
    \E writeOK \in BOOLEAN :
        \E r \in {SendMessage(World, writeOK)} :
            Commit(r.w, "SendMessage", r.err)

DoSay ==
    \E writeOK \in BOOLEAN :
        \E r \in {Say(World, writeOK)} : Commit(r.w, "Say", r.err)

DoSayf ==
    \E writeOK \in BOOLEAN :
        \E r \in {Sayf(World, writeOK)} : Commit(r.w, "Sayf", r.err)

DoPing ==
    \E writeOK \in BOOLEAN :
        \E r \in {Ping(World, writeOK)} : Commit(r.w, "Ping", r.err)

\* pingLoop with no test of the handle: a tick whatever the handle is.
pingLoopTickOnNil ==
    \E t \in BagToSet(pingLoops) :
        /\ t <= clock.now
        /\ rtm.socketConnection = Nil
        /\ \E writeOK \in BOOLEAN :
             \E w \in doPing(World, writeOK) :
                Commit([w EXCEPT !.pingLoops =
                            (@ (-) SetToBag({t}))
                                (+) SetToBag({clock.now + rtm.pingInterval})],
                       "doPing", FALSE)

\* pingLoop, a monitor whose Sleep has ended: it returns when the handle is
\* nil, else runs doPing and sleeps pingInterval.
pingLoopExit ==
    \E t \in BagToSet(pingLoops) :
        /\ t # AtDoPing
        /\ t <= clock.now
        /\ rtm.socketConnection = Nil
        /\ Commit([World EXCEPT !.pingLoops = @ (-) SetToBag({t})],
                  "pingLoopExit", FALSE)

pingLoopTick ==
    \E t \in BagToSet(pingLoops) :
        /\ t # AtDoPing
        /\ t <= clock.now
        /\ rtm.socketConnection # Nil
        /\ \E writeOK \in BOOLEAN :
             \E w \in doPing(World, writeOK) :
                Commit([w EXCEPT !.pingLoops =
                            (@ (-) SetToBag({t}))
                                (+) SetToBag({clock.now + rtm.pingInterval})],
                       "doPing", FALSE)

\* pingLoop step by step.  Its Sleep over, it tests the handle, and goes on
\* when it is not nil ...
pingLoopTest ==
    \E t \in BagToSet(pingLoops) :
        /\ t # AtDoPing
        /\ t <= clock.now
        /\ rtm.socketConnection # Nil
        /\ Commit([World EXCEPT !.pingLoops =
                      (@ (-) SetToBag({t})) (+) SetToBag({AtDoPing})],
                  "pingLoopTest", FALSE)

\* ... then calls doPing, whatever the handle holds by now, and sleeps.
pingLoopCall ==
    /\ BagIn(AtDoPing, pingLoops)
    /\ \E writeOK \in BOOLEAN :
         \E w \in doPing(World, writeOK) :
            Commit([w EXCEPT !.pingLoops =
                        (@ (-) SetToBag({AtDoPing}))
                            (+) SetToBag({clock.now + rtm.pingInterval})],
                   "doPing", FALSE)

\* listenLoop at the top of its loop: it returns when the handle is nil,
\* else blocks in ReadMessage on the socket the handle names.
listenLoopExit ==
    \E l \in BagToSet(listenLoops) :
        /\ l.at = Nil
        /\ rtm.socketConnection = Nil
        /\ Commit([World EXCEPT !.listenLoops = @ (-) SetToBag({l})],
                  "listenLoopExit", FALSE)

listenLoopRead ==
    \E l \in BagToSet(listenLoops) :
        /\ l.at = Nil
        /\ rtm.socketConnection # Nil
        /\ Commit([World EXCEPT !.listenLoops =
                      (@ (-) SetToBag({l}))
                          (+) SetToBag({Loop(rtm.socketConnection, l.mt)})],
                  "listenLoopRead", FALSE)

\* ReadMessage returns a frame of an open socket, one of frames: decode,
\* dispatch, loop.  The last keep messages dispatched are remembered.
listenLoopRecv(frames, keep) ==
    \E l \in BagToSet(listenLoops) :
        /\ l.at # Nil
        /\ l.at \in net.open
        /\ \E f \in frames :
             \E r \in {listenLoopFrame([World EXCEPT !.f = f], f, l.mt)} :
                CommitMsg([r.w EXCEPT
                              !.listenLoops = (@ (-) SetToBag({l}))
                                                 (+) SetToBag({Loop(Nil, r.mt)}),
                              !.seen = IF r.sent
                                       THEN LastN(Append(@, r.m), keep)
                                       ELSE @],
                          "listenLoopRecv", FALSE, r.m)

\* ReadMessage returns an error (the socket was closed, or the network
\* failed): listenLoop returns it.
listenLoopError ==
    \E l \in BagToSet(listenLoops) :
        /\ l.at > Nil
        /\ Commit([World EXCEPT !.listenLoops = @ (-) SetToBag({l})],
                  "listenLoopError", TRUE)

\* listenLoop step by step.  It tests the handle, and goes on when it is
\* not nil ...
listenLoopTest ==
    \E l \in BagToSet(listenLoops) :
        /\ l.at = Nil
        /\ rtm.socketConnection # Nil
        /\ Commit([World EXCEPT !.listenLoops =
                      (@ (-) SetToBag({l}))
                          (+) SetToBag({Loop(Tested(rtm.socketConnection), l.mt)})],
                  "listenLoopTest", FALSE)

\* ... then calls ReadMessage on the handle, which no lock guards: on the
\* socket it tested, or on what the handle holds now.  A call on nil
\* panics; nothing recovers it, and the process dies with its goroutines.
listenLoopCall ==
    \E l \in BagToSet(listenLoops) :
        /\ l.at < Nil
        /\ \/ \E s \in {Nil - l.at, rtm.socketConnection} \ {Nil} :
                 Commit([World EXCEPT !.listenLoops =
                            (@ (-) SetToBag({l})) (+) SetToBag({Loop(s, l.mt)})],
                        "listenLoopRead", FALSE)
           \/ /\ rtm.socketConnection = Nil
              /\ Commit([World EXCEPT !.listenLoops = EmptyBag,
                                      !.pingLoops = EmptyBag,
                                      !.tasks = EmptyBag],
                        "panic", TRUE)

\* ReadMessage on a socket that Close was called on: it returns an error,
\* and listenLoop returns it.
listenLoopClosed ==
    \E l \in BagToSet(listenLoops) :
        /\ l.at > Nil
        /\ l.at \notin net.open
        /\ Commit([World EXCEPT !.listenLoops = @ (-) SetToBag({l})],
                  "listenLoopError", TRUE)

\* What channels.list may answer.
ChannelsListAnswers ==
    { [err |-> TRUE, channels |-> <<>>] }
    \cup { [err |-> FALSE,
            channels |-> <<[ID |-> c, IsMember |-> mem, IsArchived |-> FALSE]>>]
           : c \in Channels, mem \in BOOLEAN }

\* What handleChannelUnarchive has of its ChannelsInfo call: an error, or
\* the channel, of which the client is a member or not.
ChannelInfo(res, isMember) ==
    IF ChannelsInfo(res).err # "" THEN "err"
    ELSE IF isMember THEN "member"
    ELSE "notMember"

\* The goroutine of task t runs to its end in world w: a listener on its
\* message (a panic in it is recovered), or fetchActiveChannels.
RunBody(w, t) ==
    CASE t.fn = "handlePong" ->
            CommitMsg(handlePong(w, t.m), t.fn, FALSE, t.m)
      [] t.fn = "handleChannelJoined" ->
            CommitMsg(handleChannelJoined(w, t.m), t.fn, FALSE, t.m)
      [] t.fn = "handleChannelLeft" ->
            CommitMsg(handleChannelLeft(w, t.m), t.fn, FALSE, t.m)
      [] t.fn = "handleChannelDeleted" ->
            CommitMsg(handleChannelDeleted(w, t.m), t.fn, FALSE, t.m)
      [] t.fn = "handleChannelUnarchive" ->
            \E res \in ApiResponses, isMember \in BOOLEAN :
                \E info \in {ChannelInfo(res, isMember)} :
                    CommitMsg([handleChannelUnarchive(w, t.m, info)
                                  EXCEPT !.call =
                                     Call("ChannelsInfo",
                                          [res |-> res, IsMember |-> isMember],
                                          info)],
                              t.fn, FALSE, t.m)
      [] t.fn = "fetchActiveChannels" ->
            \E list \in ChannelsListAnswers :
                Commit(fetchActiveChannels(w, list), t.fn, FALSE)
      [] OTHER ->
            CommitMsg(w, t.fn, t.fn = "panicListener", t.m)

\* A spawned goroutine runs, from its first statement to its last.
RunTask ==
    \E t \in BagToSet(tasks) :
        RunBody([World EXCEPT !.tasks = @ (-) SetToBag({t})], t)

\* The mutex a goroutine takes with its first statement.
LockOf(fn) ==
    IF fn \in {"doPing", "handlePong"} THEN "pingInFlightLock"
    ELSE IF fn \in {"handleChannelJoined", "handleChannelUnarchive",
                    "handleChannelLeft", "handleChannelDeleted",
                    "fetchActiveChannels"} THEN "activeLock"
    ELSE ""

\* The goroutines step by step at their mutexes.  A spawned goroutine
\* whose mutex is free takes it, and the others wait ...
TaskLock ==
    \E t \in BagToSet(tasks) :
        /\ LockOf(t.fn) # ""
        /\ locks[LockOf(t.fn)] = NoHolder
        /\ CommitMsg([World EXCEPT !.tasks = @ (-) SetToBag({t}),
                                   !.locks[LockOf(t.fn)] = Holder(t.fn, t.m)],
                     "Lock", FALSE, t.m)

\* ... and runs to its end, where the deferred Unlock frees the mutex.
TaskUnlockOf(l) ==
    /\ locks[l] # NoHolder
    /\ locks[l].fn # "doPing"
    /\ RunBody([World EXCEPT !.locks[l] = NoHolder], locks[l])

TaskUnlock == \E l \in DOMAIN locks : TaskUnlockOf(l)

\* The monitor, past the test of its loop, takes pingInFlightLock in
\* doPing when it is free ...
doPingLock ==
    /\ BagIn(AtDoPing, pingLoops)
    /\ locks["pingInFlightLock"] = NoHolder
    /\ Commit([World EXCEPT
                  !.locks["pingInFlightLock"] = Holder("doPing", NoMsg)],
              "Lock", FALSE)

\* ... and runs doPing to its end, then sleeps.
doPingUnlock ==
    /\ locks["pingInFlightLock"] = Holder("doPing", NoMsg)
    /\ \E writeOK \in BOOLEAN :
         \E w \in doPing(World, writeOK) :
            Commit([w EXCEPT
                      !.pingLoops = (@ (-) SetToBag({AtDoPing}))
                                       (+) SetToBag({clock.now + rtm.pingInterval}),
                      !.locks["pingInFlightLock"] = NoHolder],
                   "doPing", FALSE)

DoAddEventListener(events, handlers) ==
    \E event \in events, handler \in handlers :
        /\ Cardinality({i \in DOMAIN Lookup(rtm.EventListeners, event) :
                           Lookup(rtm.EventListeners, event)[i] = handler})
              < MaxListeners
        /\ Commit([World EXCEPT !.rtm = AddEventListener(@, event, handler),
                                !.arg = Registration(event, handler)],
                  "AddEventListener", FALSE)

DoRemoveEventListeners(events) ==
    \E event \in events :
        Commit([World EXCEPT !.rtm = RemoveEventListeners(@, event),
                             !.arg = Registration(event, "")],
               "RemoveEventListeners", FALSE)

\* The strings of up to n characters of alphabet.
Strings(alphabet, n) == UNION { [1..k -> alphabet] : k \in 0..n }

\* A timestamp string, bare or in the quotes it has inside a JSON message,
\* is parsed into a fresh Timestamp, which is printed.
DoTimestamp ==
    \E s \in Strings({"0", "1", "."}, MaxStringLen), quoted \in BOOLEAN :
        LET data == IF quoted THEN <<"\"">> \o s \o <<"\"">> ELSE s
            t == TimestampUnmarshalJSON(NewTimestamp, data)
        IN  Commit([World EXCEPT
                       !.call = Call("Timestamp",
                                     [s |-> s, quoted |-> quoted],
                                     TimestampString(t))],
                   "Timestamp", FALSE)

\* A remote call of the consumer, and what the service answers.
DoPlainCall ==
    \E fn \in PlainOps, res \in ApiResponses :
        \E o \in {PlainCall(fn, res)} :
            Commit([World EXCEPT !.call = Call(fn, [res |-> res], o)],
                   fn, o.err # "")

DoReactionCall ==
    \E fn \in ReactionOps, t \in Targets, res \in ApiResponses :
        \E o \in {ReactionCall(fn, t, res)} :
            Commit([World EXCEPT !.call = Call(fn, [res |-> res, target |-> t], o)],
                   fn, o.err # "")

\* The counts a consumer asks for: around -1, 1 and 1000.
Counts ==
    UNION { (b - MaxCountMargin)..(b + MaxCountMargin) : b \in {-1, 1, 1000} }

DoChannelsHistory ==
    \E count \in Counts, unreads \in BOOLEAN, res \in ApiResponses :
        \E o \in {ChannelsHistory(count, unreads, res)} :
            Commit([World EXCEPT
                       !.call = Call("ChannelsHistory",
                                     [res |-> res, count |-> count,
                                      unreads |-> unreads], o)],
                   "ChannelsHistory", o.err # "")

\* Time passes.
Tick ==
    /\ Running
    /\ clock.now + ClockStep <= MaxTime
    /\ clock' = [clock EXCEPT !.now = @ + ClockStep]
    /\ UNCHANGED <<rtm, net, pingLoops, listenLoops, tasks, lastOp, ret, obs,
                   pre, seen, locks>>

Init ==
    /\ rtm = NewClient
    /\ net = [dialed |-> 0, open |-> {}]
    /\ clock = [now |-> 0, unixNano |-> 1]
    /\ pingLoops = EmptyBag
    /\ listenLoops = EmptyBag
    /\ tasks = EmptyBag
    /\ lastOp = "NewClient"
    /\ ret = "ok"
    /\ obs = [now |-> 0, f |-> NoFrame, m |-> NoMsg, again |-> FALSE,
              out |-> <<>>, cycles |-> 0, cycleErrs |-> 0, cycleLog |-> {},
              access |-> {}, arg |-> NoRegistration, call |-> NoCall,
              nest |-> {}, pingLoop |-> 0, listenLoop |-> 0, exited |-> 0,
              spawned |-> EmptyBag, ran |-> EmptyBag]
    /\ pre = NewClient
    /\ seen = <<>>
    /\ locks = NoLocks

\* One monitor and one read loop at a time.
OneLoop ==
    /\ BagCardinality(pingLoops') <= MaxLoops
    /\ BagCardinality(listenLoops') <= MaxLoops

\* The bounds of the connection's life: few goroutines pending, few
\* channels, one loop of each kind.
Small ==
    /\ BagCardinality(tasks') <= MaxTasks
    /\ Len(rtm'.ActiveChannels) <= MaxActive
    /\ OneLoop

\* The goroutines of the client.
Goroutines ==
    \/ pingLoopExit
    \/ pingLoopTick
    \/ listenLoopExit
    \/ listenLoopRead
    \/ listenLoopError
    \/ RunTask
    \/ Tick

\* The connection's life: the consumer connects, sends, pings and stops;
\* the service answers pings.
Next ==
    /\ \/ DoConnect
       \/ DoStop
       \/ DoSendMessage
       \/ DoSay
       \/ DoSayf
       \/ DoPing
       \/ listenLoopRecv(PongFrames, 0)
       \/ Goroutines
    /\ clock'.unixNano <= MaxNano + 1
    /\ Small

Spec == Init /\ [][Next]_vars

\* Reconnects: the monitor cycles the connection while channel events
\* arrive and the consumer adds and removes listeners.
NextReconnect ==
    /\ \/ DoConnect
       \/ DoStop
       \/ DoAddEventListener({EventMessage}, {"userListener"})
       \/ DoRemoveEventListeners({EventMessage, EventPong})
       \/ listenLoopRecv(ChannelFrames, 0)
       \/ Goroutines
    /\ clock'.unixNano <= MaxNano + 1
    /\ Small

SpecReconnect == Init /\ [][NextReconnect]_vars

\* The monitor with many pings outstanding: the consumer pings too, and
\* the service answers none.
NextTick ==
    /\ \/ DoConnect
       \/ DoPing
       \/ Goroutines
    /\ clock'.unixNano <= MaxNanoTick + 1
    /\ Small

SpecTick == Init /\ [][NextTick]_vars

\* The read loop at work: frames of every shape arrive while the consumer
\* adds listeners, one of which panics.
NextListen ==
    /\ \/ DoConnect
       \/ DoAddEventListener({EventMessage}, {"userListener", "panicListener"})
       \/ pingLoopExit
       \/ listenLoopExit
       \/ listenLoopRead
       \/ listenLoopRecv(ListenFrames, 0)
       \/ listenLoopError
       \/ RunTask
    /\ OneLoop

SpecListen == Init /\ [][NextListen]_vars

\* The active channels: channel events arrive and their listeners run in
\* any order.
NextChannels ==
    /\ \/ DoConnect
       \/ pingLoopExit
       \/ listenLoopExit
       \/ listenLoopRead
       \/ listenLoopRecv(ChannelEventFrames, MaxSeen)
       \/ RunTask
    /\ OneLoop

SpecChannels == Init /\ [][NextChannels]_vars

\* The goroutines after Stop: the consumer connects and stops while the
\* service answers pings.  Time passes; a goroutine that can run does run;
\* a read on a closed socket returns.
NextLive ==
    /\ \/ DoConnect
       \/ DoStop
       \/ listenLoopRecv(PongFrames, 0)
       \/ listenLoopTest
       \/ listenLoopCall
       \/ listenLoopClosed
       \/ Goroutines
    /\ clock'.unixNano <= MaxNano + 1
    /\ Small

\* The tracker of active channels: the four channel events arrive, and the
\* built-in listeners and the initial fetch run in any order.
NextTracker ==
    /\ \/ DoConnect
       \/ pingLoopExit
       \/ listenLoopExit
       \/ listenLoopRead
       \/ listenLoopRecv(TrackerFrames, 0)
       \/ listenLoopError
       \/ RunTask
    /\ OneLoop

SpecTracker == Init /\ [][NextTracker]_vars

\* The registry: the consumer adds listeners to an event that has none and
\* to one that has a built-in listener, and removes them.
NextRegistry ==
    \/ DoAddEventListener({EventMessage, EventPong},
                          {"userListener", "otherListener"})
    \/ DoRemoveEventListeners({EventMessage, EventPong})

SpecRegistry == Init /\ [][NextRegistry]_vars

\* The consumer makes remote calls.
NextApi ==
    \/ DoPlainCall
    \/ DoReactionCall
    \/ DoChannelsHistory

SpecApi == Init /\ [][NextApi]_vars

\* Timestamps are parsed and printed.
NextTimestamp == DoTimestamp

SpecTimestamp == Init /\ [][NextTimestamp]_vars

\* The consumer connects and stops at will, also while connected and while
\* the loops of an earlier connection are still there.
NextConnect ==
    /\ \/ DoConnect
       \/ DoStop
       \/ Goroutines
    /\ clock'.unixNano <= MaxNano + 1
    /\ BagCardinality(tasks') <= MaxTasks
    /\ Len(rtm'.ActiveChannels) <= MaxActive

SpecConnect == Init /\ [][NextConnect]_vars

\* The monitor and Stop: the consumer connects and stops while the
\* monitor is between its test of the handle and its tick.
NextStop ==
    /\ \/ DoConnect
       \/ DoStop
       \/ pingLoopTest
       \/ pingLoopCall
       \/ pingLoopExit
       \/ listenLoopExit
       \/ listenLoopRead
       \/ listenLoopClosed
       \/ RunTask
       \/ Tick
    /\ clock'.unixNano <= MaxNano + 1
    /\ Small

SpecStop == Init /\ [][NextStop]_vars

\* The read loop and the reconnect: the monitor cycles the connection
\* while the read loop is at work.  A read loop at the top of its loop does
\* go on, a goroutine that can run does run and time passes; what the
\* sockets deliver, and when, is up to the service and the network.
NextFollow ==
    /\ \/ DoConnect
       \/ listenLoopRecv(PongFrames, 0)
       \/ Goroutines
    /\ clock'.unixNano <= MaxNano + 1
    /\ Small

SpecFollow ==
    /\ Init
    /\ [][NextFollow]_vars
    /\ WF_vars(Tick)
    /\ WF_vars(listenLoopRead)
    /\ WF_vars(listenLoopExit)
    /\ WF_vars(RunTask)

\* The goroutines that append to ActiveChannels, among the spawned ones ts
\* and the holders of the mutexes lk.
Appenders(ts, lk) ==
    LET appends(fn) == fn \in {"fetchActiveChannels", "handleChannelJoined",
                               "handleChannelUnarchive"}
        pending == {t \in BagToSet(ts) : appends(t.fn)}
    IN  BagCardinality([t \in pending |-> ts[t]])
           + Cardinality({l \in DOMAIN lk : appends(lk[l].fn)})

\* Frames for the listeners that take a mutex: pongs, and channel events.
LockFrames ==
    PongFrames \cup ChannelFrames
        \cup { Frame(TRUE, EventChannelUnArchive, "string", c, 0, FALSE) :
                 c \in Channels }

\* Room for what the goroutines under way will append, and one loop of
\* each kind.
LockBounds ==
    /\ Len(rtm'.ActiveChannels) + Appenders(tasks', locks') <= MaxActive
    /\ OneLoop

\* The mutexes: the monitor ticks, pongs and channel events arrive, and
\* every goroutine takes its mutex in one step and runs to its Unlock in
\* another.
NextLocks ==
    /\ \/ DoConnect
       \/ listenLoopRead
       \/ listenLoopRecv(LockFrames, 0)
       \/ pingLoopTest
       \/ doPingLock
       \/ doPingUnlock
       \/ TaskLock
       \/ TaskUnlock
    /\ LockBounds

SpecLocks == Init /\ [][NextLocks]_vars

SpecLive ==
    /\ Init
    /\ [][NextLive]_vars
    /\ WF_vars(Tick)
    /\ WF_vars(pingLoopExit)
    /\ WF_vars(listenLoopExit)
    /\ WF_vars(listenLoopCall)
    /\ WF_vars(listenLoopClosed)
    /\ WF_vars(RunTask)

---------------------------------------------------------------------------
(* Claims *)

InFlight(c) == DOMAIN c.pingInFlight

SendOps == {"SendMessage", "Say", "Sayf", "Ping"}

\* C1: with no open connection, SendMessage, Say, Sayf and Ping each return
\* an error, write no frame and leave the in-flight ping map as it was.
C1_SendWhileDisconnectedFails ==
    (lastOp \in SendOps /\ pre.socketConnection = Nil)
        => /\ ret = "err"
           /\ obs.out = <<>>
           /\ rtm.pingInFlight = pre.pingInFlight

\* A Ping on a client that was stopped with a ping still outstanding.
C1_Witness ==
    /\ lastOp = "Ping"
    /\ pre.socketConnection = Nil
    /\ pre.pingInFlight # EmptyMap
    /\ ret = "err"

\* C2: when Stop returns from a call made with a connection open, the close
\* frame has been sent, the socket is closed and the handle is nil,
\* whatever the close-frame write did.
C2_StopAlwaysDisconnects ==
    (lastOp = "Stop" /\ pre.socketConnection # Nil)
        => /\ obs.out = <<[sock |-> pre.socketConnection, type |-> "close"]>>
           /\ pre.socketConnection \notin net.open
           /\ rtm.socketConnection = Nil

\* C3: Stop with no connection open returns nil and changes nothing, and a
\* Stop that follows a Stop returns nil and changes nothing.
C3_StopTwice ==
    /\ (lastOp = "Stop" /\ pre.socketConnection = Nil)
           => (ret = "ok" /\ rtm = pre /\ obs.out = <<>>)
    /\ (lastOp = "Stop" /\ obs.again)
           => (ret = "ok" /\ rtm = pre /\ obs.out = <<>>)

\* C4: Connect starts pingLoop and listenLoop exactly when it returns nil,
\* and then the handle names an open socket; a handshake that errors, a
\* status above 200, an error string or a failed dial make it return an
\* error and start neither.
C4_ConnectStartsLoopsOnlyWhenOpen ==
    /\ lastOp = "Connect" =>
          IF ret = "ok"
          THEN /\ rtm.socketConnection # Nil
               /\ rtm.socketConnection \in net.open
               /\ obs.pingLoop = 1
               /\ obs.listenLoop = 1
          ELSE obs.pingLoop = 0 /\ obs.listenLoop = 0
    /\ \A res \in HandshakeResponses, netOK \in BOOLEAN :
          (res.err \/ res.StatusCode > StatusOK \/ res.Error # "" \/ ~netOK)
             => \A r \in {Connect(World, res, netOK)} :
                   /\ r.err
                   /\ r.w.pingLoops = pingLoops
                   /\ r.w.listenLoops = listenLoops

\* A Connect that opened a socket and started both loops.
C4_Witness ==
    /\ lastOp = "Connect"
    /\ ret = "ok"
    /\ obs.pingLoop = 1
    /\ obs.listenLoop = 1
    /\ rtm.socketConnection \in net.open

\* C5: a tick in which the connection was cycled, with or without success,
\* leaves the listener registry and the active channels as they were.
C5_ReconnectKeepsListenersAndChannels ==
    (lastOp = "doPing" /\ obs.cycles > 0)
        => /\ rtm.EventListeners = pre.EventListeners
           /\ rtm.ActiveChannels = pre.ActiveChannels

\* A successful reconnect of a client that has an active channel and a
\* listener its consumer added.
C5_Witness ==
    /\ lastOp = "doPing"
    /\ obs.cycles > 0
    /\ obs.cycleErrs = 0
    /\ rtm.ActiveChannels # <<>>
    /\ EventMessage \in DOMAIN rtm.EventListeners

C7_MonitorSurvivesFailedReconnect ==
    [][(lastOp = "doPing" /\ obs.cycleErrs > 0) => lastOp' # "pingLoopExit"]_vars

\* C8: a tick that begins with pingMaxInFlight or more pings outstanding
\* writes no ping frame and adds no entry to pingInFlight.
C8_NoPingAtMaxInFlight ==
    (lastOp = "doPing" /\ Cardinality(InFlight(pre)) >= pre.pingMaxInFlight)
        => /\ \A i \in DOMAIN obs.out : obs.out[i].type # EventPing
           /\ InFlight(rtm) \subseteq InFlight(pre)

\* A tick that began with pingMaxInFlight or more pings outstanding.
C8_Witness ==
    /\ lastOp = "doPing"
    /\ Cardinality(InFlight(pre)) >= pre.pingMaxInFlight

\* The pings of client c older than pingTimeout at time t.
Expired(c, t) == { k \in InFlight(c) : t - c.pingInFlight[k] > c.pingTimeout }

C10_PongRemovesExactlyItsPing ==
    lastOp = "handlePong"
        => /\ InFlight(rtm) = InFlight(pre) \ {obs.m.ReplyTo}
           /\ \A k \in InFlight(rtm) : rtm.pingInFlight[k] = pre.pingInFlight[k]
           /\ ret = "ok"

\* A pong for one of two outstanding pings.
C10_Witness ==
    /\ lastOp = "handlePong"
    /\ obs.m.ReplyTo \in InFlight(pre)
    /\ Cardinality(InFlight(pre)) >= 2
    /\ Cardinality(InFlight(rtm)) >= 1

---------------------------------------------------------------------------
(* Claims of the read loop, the dispatcher and the active channels *)

Range(q) == { q[i] : i \in DOMAIN q }

\* Listener goroutine of handler h on message m.
Task(h, m) == [fn |-> h, m |-> m]

\* C11: dispatch starts one goroutine for every listener of the message's
\* kind, the panicking one and its siblings alike; a listener that panics
\* ends its own goroutine only: no other goroutine is ended or started, no
\* read loop returns and the client is as it was.
C11_PanicIsIsolated ==
    /\ (lastOp = "listenLoopRecv" /\ obs.m.Type \in DOMAIN pre.EventListeners)
          => \A h \in {"userListener", "panicListener"} :
                CopiesIn(Task(h, obs.m), obs.spawned) =
                    Cardinality({i \in DOMAIN pre.EventListeners[obs.m.Type] :
                                    pre.EventListeners[obs.m.Type][i] = h})
    /\ lastOp = "panicListener"
          => /\ obs.ran = SetToBag({Task("panicListener", obs.m)})
             /\ obs.spawned = EmptyBag
             /\ obs.exited = 0
             /\ rtm = pre

\* A listener registered before its sibling has panicked; the sibling's
\* goroutine is still there to run and the read loop is running.
C11_Witness ==
    /\ lastOp = "panicListener"
    /\ pre.EventListeners[EventMessage] = <<"panicListener", "userListener">>
    /\ BagIn(Task("userListener", obs.m), tasks)
    /\ listenLoops # EmptyBag

ChannelTasks(m) ==
    { Task("handleChannelJoined", m), Task("handleChannelLeft", m) }

\* C12: once the listener of a channel_joined for C has run C is in
\* ActiveChannels; and when channel_joined for C and then channel_left for C
\* were dispatched, C is not in ActiveChannels when the last of their
\* listeners has completed, in whatever order they ran.
C12_JoinedThenLeftIsInactive ==
    /\ lastOp = "handleChannelJoined"
          => obs.m.Channel \in Range(rtm.ActiveChannels)
    /\ ( /\ lastOp \in {"handleChannelJoined", "handleChannelLeft"}
         /\ Len(seen) = 2
         /\ seen[1] = Msg(EventChannelJoined, obs.m.Channel, 0, 0)
         /\ seen[2] = Msg(EventChannelLeft, obs.m.Channel, 0, 0)
         /\ \A t \in ChannelTasks(seen[1]) \cup ChannelTasks(seen[2]) :
               ~BagIn(t, tasks) )
          => obs.m.Channel \notin Range(rtm.ActiveChannels)

\* C13: channel_left and channel_deleted remove every occurrence of their
\* channel and keep the other entries in their order (so nothing changes
\* when the channel is not there), and report no error.
C13_RemoveFiltersInOrder ==
    lastOp \in {"handleChannelLeft", "handleChannelDeleted"}
        => LET old == pre.ActiveChannels
               new == rtm.ActiveChannels
               kept == {i \in DOMAIN old : old[i] # obs.m.Channel}
               pos(i) == Cardinality({j \in kept : j <= i})
           IN  /\ Len(new) = Cardinality(kept)
               /\ \A i \in kept : new[pos(i)] = old[i]
               /\ ret = "ok"

\* A channel that is in the list twice, around another, has been left.
C13_Witness ==
    /\ lastOp = "handleChannelLeft"
    /\ Len(pre.ActiveChannels) = 3
    /\ pre.ActiveChannels[1] = obs.m.Channel
    /\ pre.ActiveChannels[2] # obs.m.Channel
    /\ pre.ActiveChannels[3] = obs.m.Channel
    /\ Len(rtm.ActiveChannels) = 1

\* C14: no channel id is in ActiveChannels twice.
C14_OneEntryPerChannel ==
    \A i, j \in DOMAIN rtm.ActiveChannels :
        i # j => rtm.ActiveChannels[i] # rtm.ActiveChannels[j]

\* C15: a channel_joined frame whose channel is a nested object with id X is
\* dispatched as a channel_joined message of channel X, and the built-in
\* listener is started on it.
C15_ChannelJoinedIsHoisted ==
    ( /\ lastOp = "listenLoopRecv"
      /\ obs.f.json
      /\ obs.f.type = EventChannelJoined
      /\ obs.f.chanKind = "object" )
        => /\ obs.m = Msg(EventChannelJoined, obs.f.chan, 0, 0)
           /\ BagIn(Task("handleChannelJoined", obs.m), obs.spawned)

\* C16: a frame with no type and an ok flag is dispatched as a message_ack
\* with the frame's reply_to; a frame with a type that decodes is dispatched
\* under that type.
C16_AckIsSniffed ==
    (lastOp = "listenLoopRecv" /\ obs.f.json)
        => /\ (obs.f.type = "" /\ obs.f.hasOK)
                 => /\ obs.m.Type = EventMessageACK
                    /\ obs.m.ReplyTo = obs.f.reply_to
           /\ (obs.f.type # "" /\ obs.f.chanKind # "object")
                 => obs.m.Type = obs.f.type

\* A frame neither decode accepts: not JSON, or JSON that does not fit
\* Message.
Undecodable(f) == UnmarshalMessageType(f, "").err \/ UnmarshalMessage(f).err

\* C17: a frame that fails to decode starts no listener and changes nothing
\* of the client; listenLoop does not return, it is back at the top of its
\* loop, where it reads the next frame.
C17_BadFrameIsDropped ==
    (lastOp = "listenLoopRecv" /\ Undecodable(obs.f))
        => /\ obs.spawned = EmptyBag
           /\ obs.exited = 0
           /\ ret = "ok"
           /\ rtm = pre
           /\ \E l \in BagToSet(listenLoops) : l.at = Nil

\* Bytes that are not JSON were read while a listener for messages was
\* registered.
C17_Witness ==
    /\ lastOp = "listenLoopRecv"
    /\ ~obs.f.json
    /\ EventMessage \in DOMAIN rtm.EventListeners
    /\ \E l \in BagToSet(listenLoops) : l.at = Nil /\ l.mt = EventMessage

\* C18: when ReadMessage fails listenLoop returns, the handle is nil
\* afterwards, and no reconnect was made.
C18_ReadErrorClearsHandle ==
    lastOp = "listenLoopError"
        => /\ obs.exited = 1
           /\ rtm.socketConnection = Nil
           /\ obs.cycles = 0

---------------------------------------------------------------------------
(* Claims of the goroutines' ends *)

\* C19: a Connect that succeeds starts a monitor that is due at once; and
\* from a state where the handle is nil and every monitor's Sleep ends
\* within the time the model covers, either the handle is set again or no
\* monitor is left.
C19_MonitorEndsWithoutHandle ==
    /\ []((lastOp = "Connect" /\ ret = "ok")
            => (obs.pingLoop = 1 /\ BagIn(obs.now, pingLoops)))
    /\ ( /\ rtm.socketConnection = Nil
         /\ pingLoops # EmptyBag
         /\ \A t \in BagToSet(pingLoops) : t <= MaxTime )
          ~> (rtm.socketConnection # Nil \/ pingLoops = EmptyBag)

\* The monitor has returned after a Stop, its Sleep over.
C19_Witness ==
    /\ lastOp = "pingLoopExit"
    /\ pingLoops = EmptyBag
    /\ rtm.socketConnection = Nil
    /\ net.dialed > 0
    /\ net.open = {}
    /\ clock.now > 0

\* C20: once Stop has closed the socket, no goroutine started for a
\* listener ends other than by running: Stop cancels none, and nothing Stop
\* makes the read loop do takes one along; after a Stop that closed socket s
\* no read loop stays blocked on s; and the goroutines pending at a Stop
\* that succeeded have all run, unless the consumer has connected again.
C20_StopUnblocksReadLoop ==
    /\ [](lastOp = "Stop" => (obs.ran = EmptyBag /\ obs.spawned = EmptyBag))
    /\ []((net.dialed > 0 /\ net.open = {})
            => \A t \in BagToSet(obs.ran) :
                  t.fn # "fetchActiveChannels" => t.fn = lastOp)
    /\ \A s \in 1..MaxDials :
          (lastOp = "Stop" /\ ret = "ok" /\ pre.socketConnection = s)
             ~> ~(\E l \in BagToSet(listenLoops) : l.at = s)
    /\ (lastOp = "Stop" /\ ret = "ok")
          ~> (tasks = EmptyBag \/ rtm.socketConnection # Nil)

---------------------------------------------------------------------------
(* Claims of the sockets and loops a client owns *)

\* C21: the client owns at most one open socket: no two sockets it dialed
\* are open at once, and when an operation has replaced or cleared the
\* handle, the socket the handle named before is closed.
C21_AtMostOneOpenSocket ==
    /\ Cardinality(net.open) <= 1
    /\ (pre.socketConnection # Nil /\ rtm.socketConnection # pre.socketConnection)
          => pre.socketConnection \notin net.open

\* C22: at most one pingLoop and at most one listenLoop are running.
C22_OneLoopOfEachKind ==
    /\ BagCardinality(pingLoops) <= 1
    /\ BagCardinality(listenLoops) <= 1

---------------------------------------------------------------------------
(* Claims of the locks *)

\* The built-in listeners of the active channels, and the initial fetch.
TrackerOps ==
    {"handleChannelJoined", "handleChannelUnarchive", "handleChannelLeft",
     "handleChannelDeleted", "fetchActiveChannels"}

\* C23: every read or write of pingInFlight, by the tick, the pong
\* listener, the reset of a reconnect or the public Ping, is made with
\* pingInFlightLock held.
C23_InFlightMapIsLocked ==
    \A a \in obs.access :
        a.field = "pingInFlight" => "pingInFlightLock" \in a.held

\* C24: every read or write of ActiveChannels by the channel_joined,
\* channel_unarchive, channel_left and channel_deleted listeners and by the
\* initial fetch is made with activeLock held; and each of them that
\* changed the list did note an access.
C24_ActiveChannelsIsLocked ==
    lastOp \in TrackerOps
        => /\ \A a \in obs.access :
                 a.field = "ActiveChannels" => "activeLock" \in a.held
           /\ rtm.ActiveChannels # pre.ActiveChannels
                 => \E a \in obs.access : a.field = "ActiveChannels"

\* A channel_unarchive listener has appended to a list that the initial
\* fetch or a channel_joined listener had filled.
C24_Witness ==
    /\ lastOp = "handleChannelUnarchive"
    /\ pre.ActiveChannels # <<>>
    /\ Len(rtm.ActiveChannels) = Len(pre.ActiveChannels) + 1
    /\ obs.access = {[field |-> "ActiveChannels", held |-> {"activeLock"}]}

---------------------------------------------------------------------------
(* Claims of the registry *)

\* The listeners of event e in client c, none when e has no key.
Listeners(c, e) == Lookup(c.EventListeners, e)

\* The events other than e that client c or d has a key for.
OtherEvents(c, d, e) ==
    (DOMAIN c.EventListeners \cup DOMAIN d.EventListeners) \ {e}

\* C25: after AddEventListener(event, handler) the listeners of event are
\* not empty, end with handler and contain every listener the event had;
\* after RemoveEventListeners(event) the event has no listeners; neither
\* changes the listeners of any other event.
C25_RegisterAppendsUnregisterClears ==
    /\ lastOp = "AddEventListener"
          => LET old == Listeners(pre, obs.arg.event)
                 new == Listeners(rtm, obs.arg.event)
             IN  /\ new # <<>>
                 /\ new[Len(new)] = obs.arg.handler
                 /\ \A i \in DOMAIN old : \E j \in DOMAIN new : new[j] = old[i]
    /\ lastOp = "RemoveEventListeners"
          => Listeners(rtm, obs.arg.event) = <<>>
    /\ lastOp \in {"AddEventListener", "RemoveEventListeners"}
          => \A e \in OtherEvents(pre, rtm, obs.arg.event) :
                /\ (e \in DOMAIN rtm.EventListeners)
                       <=> (e \in DOMAIN pre.EventListeners)
                /\ Listeners(rtm, e) = Listeners(pre, e)

\* A listener has been added to pong, which had the built-in listener and
\* one the consumer added before, while message has listeners too.
C25_Witness ==
    /\ lastOp = "AddEventListener"
    /\ obs.arg.event = EventPong
    /\ Len(Listeners(pre, EventPong)) = 2
    /\ Listeners(pre, EventPong)[1] = "handlePong"
    /\ Len(Listeners(rtm, EventPong)) = 3
    /\ Listeners(rtm, EventMessage) # <<>>

---------------------------------------------------------------------------
(* Claims of Timestamp *)

\* Seconds as the service writes them: the decimal digits of an integer,
\* with a minus sign for a negative one, no plus sign and no leading zero.
IsSeconds(s) == ~ParseInt(s).err /\ FormatInt(ParseInt(s).value) = s

\* An opaque suffix: digits, one or more, leading zeros allowed.
IsSuffix(s) == s # <<>> /\ \A i \in DOMAIN s : IsDigit(s[i])

\* A valid timestamp string: seconds, or seconds.suffix.
IsTimestamp(s) ==
    \/ IsSeconds(s)
    \/ \E i \in DOMAIN s :
          /\ s[i] = "."
          /\ IsSeconds(SubSeq(s, 1, i - 1))
          /\ IsSuffix(SubSeq(s, i + 1, Len(s)))

\* C26: a valid timestamp string, seconds or seconds.suffix, parsed into a
\* fresh Timestamp and printed with String comes back character for
\* character, leading zeros of the suffix included.
C26_TimestampRoundTrip ==
    (lastOp = "Timestamp" /\ IsTimestamp(obs.call.in.s))
        => obs.call.out = obs.call.in.s

\* A quoted timestamp whose suffix begins with zeros came back as it was.
C26_Witness ==
    /\ lastOp = "Timestamp"
    /\ obs.call.in = [s |-> <<"1", ".", "0", "1">>, quoted |-> TRUE]
    /\ obs.call.out = <<"1", ".", "0", "1">>

---------------------------------------------------------------------------
(* Claims of the remote calls *)

RemoteOps == PlainOps \cup ReactionOps \cup {"ChannelsHistory"}

\* C27: a remote call whose response has a false ok flag or an error string
\* returns an error and no result, and the error is the error string when
\* there is one.  (The handshake of Connect is a remote call too; Connect
\* does not read the ok flag either.)
C27_RemoteFailureIsAnError ==
    ( /\ lastOp \in RemoteOps
      /\ obs.call.out.called
      /\ ~obs.call.in.res.err
      /\ (~obs.call.in.res.OK \/ obs.call.in.res.Error # "") )
        => /\ ret = "err"
           /\ obs.call.out.err # ""
           /\ ~obs.call.out.result
           /\ obs.call.in.res.Error # ""
                 => obs.call.out.err = obs.call.in.res.Error

\* No target at all: the four pointers nil.
NoTarget == Target(FALSE, FALSE, FALSE, FALSE)

\* C28: ReactionsAdd, ReactionsGet and ReactionsRemove called with the file
\* id, the file-comment id, the channel id and the timestamp all nil
\* return the usage error and no result, and send no request.
C28_ReactionWithoutTargetIsUsageError ==
    (lastOp \in ReactionOps /\ obs.call.in.target = NoTarget)
        => /\ ret = "err"
           /\ obs.call.out.err = ErrUsage
           /\ ~obs.call.out.result
           /\ ~obs.call.out.called

\* ReactionsGet was called with no target, while the service would have
\* answered with success.
C28_Witness ==
    /\ lastOp = "ReactionsGet"
    /\ obs.call.in.target = NoTarget
    /\ obs.call.in.res.OK
    /\ obs.call.in.res.Error = ""
    /\ obs.call.out = Outcome(FALSE, <<>>, FALSE, ErrUsage)

\* The targets a reaction call names in full: a file, a file comment, a
\* channel with a timestamp.
Supplied(t) ==
    {k \in {"file", "file_comment", "channel"} :
        \/ k = "file" /\ t.fileID
        \/ k = "file_comment" /\ t.fileCommentID
        \/ k = "channel" /\ t.channelID /\ t.ts}

\* C29: a reaction call sends its request only when exactly one target is
\* supplied; with more than one target, or with a channel id and no
\* timestamp (or a timestamp and no channel id) and nothing else, it
\* returns the usage error and sends no request.
C29_ReactionNeedsExactlyOneTarget ==
    lastOp \in ReactionOps
        => LET t == obs.call.in.target
               rejected == /\ ~obs.call.out.called
                           /\ obs.call.out.err = ErrUsage
           IN  /\ obs.call.out.called => Cardinality(Supplied(t)) = 1
               /\ Cardinality(Supplied(t)) > 1 => rejected
               /\ (~t.fileID /\ ~t.fileCommentID /\ t.channelID # t.ts)
                     => rejected

\* What the service reads in the count field: a decimal number, or none.
CountRead(post) == ParseInt(post.count)

\* C30: the page size ChannelsHistory asks the service for is 1000 for a
\* requested count of -1, 1 for any other count below 1, 1000 for a count
\* above 1000, and the requested count when that is in 1..1000.
C30_HistoryCountIsClamped ==
    lastOp = "ChannelsHistory"
        => LET count == obs.call.in.count
               size == CountRead(obs.call.out.post)
           IN  /\ ~size.err
               /\ size.value \in 1..1000
               /\ count = -1 => size.value = 1000
               /\ (count < 1 /\ count # -1) => size.value = 1
               /\ count > 1000 => size.value = 1000
               /\ count \in 1..1000 => size.value = count

---------------------------------------------------------------------------
(* Claims of the tick *)

\* The tick called Ping and Ping returned an error: there was room for a
\* ping, and no ping frame was written.
SendFailed ==
    /\ lastOp = "doPing"
    /\ Cardinality(InFlight(pre)) < pre.pingMaxInFlight
    /\ \A i \in DOMAIN obs.out : obs.out[i].type # EventPing

\* C31: a tick whose ping send fails makes exactly one reconnect and then
\* neither looks for timed-out pings nor prunes them: when that reconnect
\* did not reset the map, the timed-out pings are still in it.
C31_FailedSendSkipsRestOfTick ==
    SendFailed
        => /\ obs.cycles = 1
           /\ (\A c \in obs.cycleLog : ~c.handshake)
                 => Stale(pre.pingInFlight, obs.now, pre.pingTimeout)
                        \subseteq InFlight(rtm)

\* C32: a tick that finds several pings timed out reconnects at most once
\* for them (and once more if its own send failed).
C32_OneReconnectPerStaleBatch ==
    ( /\ lastOp = "doPing"
      /\ Cardinality(Stale(pre.pingInFlight, obs.now, pre.pingTimeout)) >= 2 )
        => obs.cycles <= (IF SendFailed THEN 2 ELSE 1)

\* C33: when a tick has finished, no entry of pingInFlight has timed out at
\* the time of the tick, whatever its reconnects did.
C33_TickLeavesNoStalePing ==
    lastOp = "doPing"
        => Stale(rtm.pingInFlight, obs.now, rtm.pingTimeout) = {}

\* A tick that began with a timed-out ping, sent its own, and whose
\* reconnect failed in the handshake, so that nothing reset the map: the
\* timed-out ping is gone and the fresh one is kept.
C33_Witness ==
    /\ lastOp = "doPing"
    /\ Stale(pre.pingInFlight, obs.now, pre.pingTimeout) # {}
    /\ obs.cycleErrs = obs.cycles
    /\ obs.cycleLog # {}
    /\ \A c \in obs.cycleLog : ~c.handshake /\ c.left >= 2
    /\ Cardinality(InFlight(rtm)) = 1
    /\ InFlight(rtm) \cap InFlight(pre) = {}

---------------------------------------------------------------------------
(* Claims of concurrent use *)

\* C36: no goroutine calls a method of a nil connection handle.
C36_NoNilDereference ==
    ~(lastOp = "panic" /\ rtm.socketConnection = Nil)

\* C38: pingInFlight never has more than pingMaxInFlight entries.
C38_InFlightWithinMax ==
    Cardinality(InFlight(rtm)) <= rtm.pingMaxInFlight

\* C40: a Connect that returns an error leaves the handle, the listeners,
\* the active channels and the in-flight pings as they were.
C40_FailedConnectChangesNothing ==
    (lastOp = "Connect" /\ ret = "err")
        => /\ rtm.socketConnection = pre.socketConnection
           /\ rtm.EventListeners = pre.EventListeners
           /\ rtm.ActiveChannels = pre.ActiveChannels
           /\ rtm.pingInFlight = pre.pingInFlight

---------------------------------------------------------------------------
(* Claims of the channel_unarchive listener *)

\* C34: the channel_unarchive listener appends the channel of its message
\* when ChannelsInfo succeeded and reports the client a member, and leaves
\* ActiveChannels as it was when the call failed or the client is not a
\* member.
C34_UnarchiveAddsOnlyMembers ==
    lastOp = "handleChannelUnarchive"
        => LET res == obs.call.in.res
               fetched == ~res.err /\ res.Error = "" /\ res.OK
           IN  IF fetched /\ obs.call.in.IsMember
               THEN rtm.ActiveChannels
                       = Append(pre.ActiveChannels, obs.m.Channel)
               ELSE rtm.ActiveChannels = pre.ActiveChannels

\* ChannelsInfo succeeded for a channel the client is not a member of, and
\* the list, which was not empty, is as it was.
C34_Witness ==
    /\ lastOp = "handleChannelUnarchive"
    /\ obs.call.out = "notMember"
    /\ obs.call.in.res.OK
    /\ ~obs.call.in.IsMember
    /\ pre.ActiveChannels # <<>>
    /\ rtm.ActiveChannels = pre.ActiveChannels

---------------------------------------------------------------------------
(* Claims of the monitor and Stop *)

\* C35: when Stop has returned nil and the handle is nil, the step that
\* sets the handle again is a Connect.
C35_OnlyConnectReopensAfterStop ==
    [][(lastOp = "Stop" /\ ret = "ok" /\ rtm.socketConnection = Nil
           /\ rtm'.socketConnection # Nil)
          => lastOp' = "Connect"]_vars

---------------------------------------------------------------------------
(* Claims of the read loop after a reconnect *)

---------------------------------------------------------------------------
(* Claims of the two mutexes together *)

\* C39: no goroutine has activeLock and pingInFlightLock at once: none
\* takes one with the other held, and the goroutines inside the two are
\* never the same; and no state is a deadlock: the goroutine inside a
\* mutex can always run on to its Unlock, so none waits for ever.
C39_LocksNeverNestNorDeadlock ==
    /\ \A h \in obs.nest : Cardinality(h) <= 1
    /\ locks["activeLock"] # NoHolder
          => locks["activeLock"] # locks["pingInFlightLock"]
    /\ \A l \in {"pingInFlightLock", "activeLock"} :
          locks[l] # NoHolder
             => ENABLED ( /\ \/ TaskUnlockOf(l)
                             \/ l = "pingInFlightLock" /\ doPingUnlock
                          /\ LockBounds )

\* The monitor is inside pingInFlightLock and the initial fetch inside
\* activeLock, while a pong listener and a channel listener wait for them.
C39_Witness ==
    /\ locks["pingInFlightLock"] = Holder("doPing", NoMsg)
    /\ locks["activeLock"].fn = "fetchActiveChannels"
    /\ \E t \in BagToSet(tasks) : t.fn = "handlePong"
    /\ \E t \in BagToSet(tasks) : LockOf(t.fn) = "activeLock"

====
